---- MODULE Spec2Model ----
(***************************************************************************)
(* The online room / matchmaking server of the tic-tac-toe repository      *)
(* (server/index-clean.js): the room registry `rooms`, the matchmaking     *)
(* queue `waitingPlayers`, the socket.io room membership of every socket   *)
(* and one action per socket event handler (Spec); the two other server    *)
(* variants of the repository (SpecExplicit, SpecBare); a game played in   *)
(* a paired room (SpecPlay); and the client's local game with checkWinner  *)
(* (SpecLocal).                                                            *)
(***************************************************************************)
EXTENDS Integers, Sequences, FiniteSets, TLC

\* ------------------------------------------------------------------ bounds
NumConns == 3       \* socket ids 1..NumConns
NumCodes == 2       \* room codes 1..NumCodes (requested by clients or drawn by nanoid)
MaxPos == 1         \* clients send the in-range positions 0..MaxPos
MaxSteps == 6       \* events delivered to the server in one run

BoardSize == 9      \* Array(9).fill(null); position < 9

Conns == 1..NumConns
Codes == 1..NumCodes
NoCode == 0         \* data.roomCode missing (falsy)
NoData == 0 - 1     \* the event came without a data object
NoPos == 0 - 99     \* marks "no position" in the record of the last event
Null == "null"
Symbols == {"X", "O"}
\* in-range positions, and the two nearest out-of-range ones
Positions == (0..MaxPos) \cup {0 - 1, BoardSize}

VARIABLES
    rooms,           \* const rooms = new Map(): code -> {players, currentTurn, board}
    waitingPlayers,  \* const waitingPlayers = []
    socketRooms,     \* per socket: Array.from(socket.rooms) without its first entry (the id room)
    connected,       \* sockets whose 'connection' event has fired and that are still open
    closed,          \* sockets that have disconnected (socket ids are never reused)
    emitted,         \* the events the last handler emitted, each with its recipient
    last,            \* the last event the server handled: handler, socket, room code, position
    steps,           \* number of events the server has handled since the initial state
    crashed,         \* the server process has died of an uncaught exception
    gameState        \* the client's local game: useState(initialGameState) in App.tsx

vars == <<rooms, waitingPlayers, socketRooms, connected, closed, emitted, last, steps,
          crashed, gameState>>

\* ------------------------------------------------------------------ helpers
EmptyBoard == [i \in 0..(BoardSize - 1) |-> Null]

Range(s) == {s[i] : i \in 1..Len(s)}

\* Array.prototype.filter
RECURSIVE Filter(_, _)
Filter(s, id) ==
    IF s = <<>> THEN <<>>
    ELSE IF Head(s).id = id THEN Filter(Tail(s), id)
         ELSE <<Head(s)>> \o Filter(Tail(s), id)

\* RemoveFirst without the indexOf(id) !== -1 test: splice(-1, 1) drops the last
\* entry (a fault C21 detects)
RemoveFirst_Unchecked(s, id) ==
    IF s = <<>> THEN <<>>
    ELSE IF id \in {s[i] : i \in 1..Len(s)}
    THEN LET i == CHOOSE k \in 1..Len(s) : s[k] = id /\ \A j \in 1..(k - 1) : s[j] # id
         IN  SubSeq(s, 1, i - 1) \o SubSeq(s, i + 1, Len(s))
    ELSE SubSeq(s, 1, Len(s) - 1)

\* waitingPlayers.splice(waitingPlayers.indexOf(id), 1) when indexOf(id) !== -1
RECURSIVE RemoveFirst(_, _)
RemoveFirst(s, id) ==
    IF s = <<>> THEN <<>>
    ELSE IF Head(s) = id THEN Tail(s)
         ELSE <<Head(s)>> \o RemoveFirst(Tail(s), id)

\* Set.prototype.delete on socket.rooms (a code occurs at most once)
RECURSIVE Without(_, _)
Without(s, code) ==
    IF s = <<>> THEN <<>>
    ELSE IF Head(s) = code THEN Without(Tail(s), code)
         ELSE <<Head(s)>> \o Without(Tail(s), code)

\* socket.join(roomCode): Set.prototype.add keeps the insertion order
SocketJoin(sr, c, code) ==
    IF code \in Range(sr[c]) THEN sr ELSE [sr EXCEPT ![c] = Append(@, code)]

\* socket.leave(roomCode)
SocketLeave(sr, c, code) == [sr EXCEPT ![c] = Without(@, code)]

\* the sockets io.to(roomCode) reaches, under the room membership sr
Members(sr, code) == {c \in connected : code \in Range(sr[c])}

\* room.players.find(p => p.id === socket.id): index of the first entry, 0 if none
FindPlayer(players, id) ==
    LET hits == {i \in 1..Len(players) : players[i].id = id} IN
    IF hits = {} THEN 0 ELSE CHOOSE i \in hits : \A j \in hits : i <= j

\* room.players.some(p => p.id === socket.id)
IsPlayer(room, id) == \E i \in 1..Len(room.players) : room.players[i].id = id

\* RoomsSet with all registered codes sharing one room object, so that an
\* update shows under every code (a fault C28 detects)
RoomsSet_Aliased(rm, code, room) ==
    [k \in (DOMAIN rm) \cup {code} |->
        IF k = code \/ code \in DOMAIN rm THEN room ELSE rm[k]]

\* rooms.set(roomCode, room)
RoomsSet(rm, code, room) == [k \in (DOMAIN rm) \cup {code} |-> IF k = code THEN room ELSE rm[k]]

\* rooms.delete(roomCode)
RoomsDelete(rm, code) == [k \in (DOMAIN rm) \ {code} |-> rm[k]]

\* an emitted event and the socket it is delivered to
Msg(event, to, roomCode) == [event |-> event, to |-> to, room |-> roomCode]

\* Array.from(socket.rooms)[1], null when the socket is in its id room only
SecondRoom(c) == IF Len(socketRooms[c]) >= 1 THEN socketRooms[c][1] ELSE NoCode

\* the record of the last event: handler, socket, the code the client sent, the
\* code the handler worked on, the position the client sent, and (sym) the
\* symbol a make_move payload carried
Handled(op, c, req, code, pos) ==
    [op |-> op, conn |-> c, req |-> req, code |-> code, pos |-> pos, sym |-> Null]

\* Err delivered to another socket than the sender (a fault C26 detects)
Err_Misrouted(c, text) == [event |-> "error", to |-> (IF c = 1 THEN 2 ELSE 1), msg |-> text]

\* socket.emit('error', text)
Err(c, text) == [event |-> "error", to |-> c, msg |-> text]

Player(id, symbol) == [id |-> id, symbol |-> symbol]

\* NewRoom handing the first turn to O (a fault C23 detects)
NewRoom_TurnO(players) == [players |-> players, currentTurn |-> "O", board |-> EmptyBoard]

\* {players: [...], currentTurn: 'X', board: Array(9).fill(null)}
NewRoom(players) == [players |-> players, currentTurn |-> "X", board |-> EmptyBoard]

\* RoomsGet creating a missing room on lookup (a fault C10 detects)
RoomsGet_OrCreate(rm, code) ==
    IF code \in DOMAIN rm THEN <<rm[code]>>
    ELSE IF code = NoCode THEN << >>
    ELSE <<[players |-> << >>, currentTurn |-> "X", board |-> EmptyBoard]>>

\* rooms.get(roomCode): <<room>>, or << >> for undefined
RoomsGet(rm, code) == IF code \in DOMAIN rm THEN <<rm[code]>> ELSE << >>

\* the codes nanoid(6).toUpperCase() can return; no handler checks the result
\* against the registry
Nanoid == Codes

\* RoomFull off by one (a fault C5 and C9 detect)
RoomFull_OffByOne(room) == Len(room.players) > 2

\* room.players.length >= 2
RoomFull(room) == Len(room.players) >= 2

\* NotYourTurn with the turn check dropped (a fault C1 detects)
NotYourTurn_Dropped(room, player) == FALSE

\* room.currentTurn !== player.symbol
NotYourTurn(room, player) == room.currentTurn # player.symbol

\* CellFree with the occupancy check dropped (a fault C2 detects)
CellFree_RangeOnly(room, position) ==
    /\ position >= 0
    /\ position < BoardSize

\* position >= 0 && position < 9 && room.board[position] === null
CellFree(room, position) ==
    /\ position >= 0
    /\ position < BoardSize
    /\ room.board[position] = Null

\* OtherSymbol without the flip (a fault C3 detects)
OtherSymbol_Same(symbol) == symbol

\* player.symbol === 'X' ? 'O' : 'X'
OtherSymbol(symbol) == IF symbol = "X" THEN "O" ELSE "X"

\* AlreadyQueued with the check dropped (a fault C20 detects)
AlreadyQueued_Dropped(q, id) == FALSE

\* waitingPlayers.includes(socket.id)
AlreadyQueued(q, id) == id \in Range(q)

\* SomeoneWaiting with the threshold off by one (a fault C17 detects)
SomeoneWaiting_OffByOne(q) == Len(q) > 1

\* waitingPlayers.length > 0
SomeoneWaiting(q) == Len(q) > 0

\* Enqueue without the push (a fault C19 detects)
Enqueue_Lost(q, id) == q

\* waitingPlayers.push(socket.id)
Enqueue(q, id) == Append(q, id)

\* PairedRoom with the symbols swapped (a fault C18 detects)
PairedRoom_Swapped(opponentId, id) ==
    NewRoom(<<Player(opponentId, "O"), Player(id, "X")>>)

\* the room a pairing registers: the waiting seeker as X, the new seeker as O
PairedRoom(opponentId, id) ==
    NewRoom(<<Player(opponentId, "X"), Player(id, "O")>>)

\* MoveMade carrying the turn before the flip (a fault C13 detects)
MoveMade_StaleTurn(to, roomCode, position, player, room) ==
    [event |-> "move_made", to |-> to, room |-> roomCode,
     position |-> position,
     symbol |-> player.symbol,
     board |-> room.board,
     currentTurn |-> player.symbol]

\* the move_made payload: {position, symbol: player.symbol, board: room.board,
\* currentTurn: room.currentTurn}, room being the room after the move
MoveMade(to, roomCode, position, player, room) ==
    [event |-> "move_made", to |-> to, room |-> roomCode,
     position |-> position,
     symbol |-> player.symbol,
     board |-> room.board,
     currentTurn |-> room.currentTurn]

\* WINNING_COMBINATIONS with the last diagonal mistyped (a fault C27 detects)
WINNING_COMBINATIONS_Typo ==
    << <<0, 1, 2>>, <<3, 4, 5>>, <<6, 7, 8>>,
       <<0, 3, 6>>, <<1, 4, 7>>, <<2, 5, 8>>,
       <<0, 4, 8>>, <<2, 4, 7>> >>

\* export const WINNING_COMBINATIONS: rows, columns, diagonals, in this order
WINNING_COMBINATIONS ==
    << <<0, 1, 2>>, <<3, 4, 5>>, <<6, 7, 8>>,
       <<0, 3, 6>>, <<1, 4, 7>>, <<2, 5, 8>>,
       <<0, 4, 8>>, <<2, 4, 6>> >>

\* board[a] && board[a] === board[b] && board[a] === board[c]
ComboHolds(board, combo) ==
    /\ board[combo[1]] # Null
    /\ board[combo[1]] = board[combo[2]]
    /\ board[combo[1]] = board[combo[3]]

\* export const checkWinner = (board) => {winner, line}: the first combination
\* held by one symbol, else 'draw' on a full board, else null; a null line is
\* written << >>
checkWinner(board) ==
    LET hits == {i \in 1..Len(WINNING_COMBINATIONS) :
                    ComboHolds(board, WINNING_COMBINATIONS[i])} IN
    IF hits # {}
    THEN LET i == CHOOSE k \in hits : \A j \in hits : k <= j IN
         [winner |-> board[WINNING_COMBINATIONS[i][1]], line |-> WINNING_COMBINATIONS[i]]
    ELSE IF \A cell \in DOMAIN board : board[cell] # Null
    THEN [winner |-> "draw", line |-> << >>]
    ELSE [winner |-> Null, line |-> << >>]

\* const initialGameState: the fields the game logic reads and writes
initialGameState ==
    [board |-> EmptyBoard, currentPlayer |-> "X", winner |-> Null, winningLine |-> << >>]

\* the server process is up and handles one more event
\* the board a client puts in a make_move payload next to the symbol it names:
\* here the one most in its favour, every cell holding that symbol
ClientBoard(symbol) == [i \in 0..(BoardSize - 1) |-> symbol]

\* Placed taking the symbol from the payload (a fault C25 detects)
Placed_FromPayload(room, position, player, symbol, board) ==
    [room.board EXCEPT ![position] = symbol]

\* room.board[position] = player.symbol: the board after the move; symbol and
\* board of the payload are destructured and never read
Placed(room, position, player, symbol, board) ==
    [room.board EXCEPT ![position] = player.symbol]

Step == /\ ~crashed
        /\ steps < MaxSteps
        /\ steps' = steps + 1

\* ------------------------------------------------------------------ initial state
Init ==
    /\ rooms = << >>
    /\ waitingPlayers = << >>
    /\ socketRooms = [c \in Conns |-> << >>]
    /\ connected = {}
    /\ closed = {}
    /\ emitted = {}
    /\ last = Handled("none", 0, NoCode, NoCode, NoPos)
    /\ steps = 0
    /\ crashed = FALSE
    /\ gameState = initialGameState

\* io.on('connection', ...): a new socket, member of its id room only; socket.id
\* is fresh, and the model names the sockets in the order they connect
Connection(c) ==
    /\ Step
    /\ c = Cardinality(connected \cup closed) + 1
    /\ connected' = connected \cup {c}
    /\ emitted' = {}
    /\ last' = Handled("connection", c, NoCode, NoCode, NoPos)
    /\ UNCHANGED <<rooms, waitingPlayers, socketRooms, closed, crashed, gameState>>

\* socket.on('create_room', (data = {}) => ...): req is data.roomCode, gen the
\* code nanoid returns when data.roomCode is missing
CreateRoom(c, req, gen) ==
    LET roomCode == IF req # NoCode THEN req ELSE gen IN
    /\ Step
    /\ c \in connected
    /\ rooms' = RoomsSet(rooms, roomCode, NewRoom(<<Player(c, "X")>>))
    /\ socketRooms' = SocketJoin(socketRooms, c, roomCode)
    /\ emitted' = {Msg("room_created", c, roomCode)}
    /\ last' = Handled("create_room", c, req, roomCode, NoPos)
    /\ UNCHANGED <<waitingPlayers, connected, closed, crashed, gameState>>

\* socket.on('join_room', (data) => ...): roomCode is data?.roomCode
JoinRoom(c, roomCode) ==
    LET got == RoomsGet(rooms, roomCode) IN
    /\ Step
    /\ c \in connected
    /\ last' = Handled("join_room", c, roomCode, roomCode, NoPos)
    /\ IF roomCode = NoCode
       THEN /\ emitted' = {Err(c, "Room code is required")}
            /\ UNCHANGED <<rooms, socketRooms>>
       ELSE IF got = << >>
       THEN /\ emitted' = {Err(c, "Room not found")}
            /\ UNCHANGED <<rooms, socketRooms>>
       ELSE IF RoomFull(got[1])
       THEN /\ emitted' = {Err(c, "Room is full")}
            /\ UNCHANGED <<rooms, socketRooms>>
       ELSE LET room == [got[1] EXCEPT !.players = Append(@, Player(c, "O"))]
                sr == SocketJoin(socketRooms, c, roomCode)
            IN  /\ rooms' = RoomsSet(rooms, roomCode, room)
                /\ socketRooms' = sr
                /\ emitted' = {[event |-> "game_start", to |-> d, room |-> roomCode,
                                 players |-> room.players,
                                 currentTurn |-> room.currentTurn]
                                : d \in Members(sr, roomCode)}
    /\ UNCHANGED <<waitingPlayers, connected, closed, crashed, gameState>>

\* socket.on('make_move', (data) => ...) with a data object: position, symbol
\* and board are its fields; the room is the socket's second socket.io room
MakeMove(c, position, symbol, board) ==
    LET roomCode == SecondRoom(c)
        got == RoomsGet(rooms, roomCode)
        idx == IF got = << >> THEN 0 ELSE FindPlayer(got[1].players, c)
    IN
    /\ Step
    /\ c \in connected
    /\ last' = [Handled("make_move", c, NoCode, roomCode, position) EXCEPT !.sym = symbol]
    /\ IF roomCode = NoCode
       THEN /\ emitted' = {Err(c, "Not in any room")}
            /\ UNCHANGED rooms
       ELSE IF got = << >>
       THEN /\ emitted' = {Err(c, "Room not found")}
            /\ UNCHANGED rooms
       ELSE IF idx = 0
       THEN /\ emitted' = {Err(c, "Player not found in room")}
            /\ UNCHANGED rooms
       ELSE IF NotYourTurn(got[1], got[1].players[idx])
       THEN /\ emitted' = {Err(c, "Not your turn")}
            /\ UNCHANGED rooms
       ELSE IF CellFree(got[1], position)
       THEN LET player == got[1].players[idx]
                room == [got[1] EXCEPT
                            !.board = Placed(got[1], position, player, symbol, board),
                            !.currentTurn = OtherSymbol(player.symbol)]
            IN  /\ rooms' = RoomsSet(rooms, roomCode, room)
                /\ emitted' = {MoveMade(d, roomCode, position, player, room)
                                : d \in Members(socketRooms, roomCode)}
       ELSE /\ emitted' = {}
            /\ UNCHANGED rooms
    /\ UNCHANGED <<waitingPlayers, socketRooms, connected, closed, crashed, gameState>>

\* socket.on('make_move', (data) => ...) without a data object: if (!data) return
MakeMoveNoData(c) ==
    /\ Step
    /\ c \in connected
    /\ last' = Handled("make_move", c, NoData, NoCode, NoPos)
    /\ emitted' = {}
    /\ UNCHANGED <<rooms, waitingPlayers, socketRooms, connected, closed, crashed, gameState>>

\* socket.on('find_random_match', () => ...): gen is the code nanoid returns
FindRandomMatch(c, gen) ==
    /\ Step
    /\ c \in connected
    /\ IF AlreadyQueued(waitingPlayers, c)
       THEN /\ emitted' = {}
            /\ last' = Handled("find_random_match", c, NoCode, NoCode, NoPos)
            /\ UNCHANGED <<rooms, waitingPlayers, socketRooms>>
       ELSE IF SomeoneWaiting(waitingPlayers)
       THEN LET opponentId == Head(waitingPlayers)
                roomCode == gen
                room == PairedRoom(opponentId, c)
                sr1 == SocketJoin(socketRooms, c, roomCode)
                sr == IF opponentId \in connected
                      THEN SocketJoin(sr1, opponentId, roomCode) ELSE sr1
            IN  /\ waitingPlayers' = Tail(waitingPlayers)
                /\ rooms' = RoomsSet(rooms, roomCode, room)
                /\ socketRooms' = sr
                /\ emitted' = {[event |-> "match_found", to |-> d, room |-> roomCode,
                                 players |-> room.players,
                                 currentTurn |-> "X"]
                                : d \in Members(sr, roomCode)}
                /\ last' = Handled("find_random_match", c, NoCode, roomCode, NoPos)
       ELSE /\ waitingPlayers' = Enqueue(waitingPlayers, c)
            /\ emitted' = {Msg("waiting_for_match", c, NoCode)}
            /\ last' = Handled("find_random_match", c, NoCode, NoCode, NoPos)
            /\ UNCHANGED <<rooms, socketRooms>>
    /\ UNCHANGED <<connected, closed, crashed, gameState>>

\* socket.on('cancel_random_match', () => ...)
CancelRandomMatch(c) ==
    /\ Step
    /\ c \in connected
    /\ waitingPlayers' = RemoveFirst(waitingPlayers, c)
    /\ emitted' = {}
    /\ last' = Handled("cancel_random_match", c, NoCode, NoCode, NoPos)
    /\ UNCHANGED <<rooms, socketRooms, connected, closed, crashed, gameState>>

\* leaveRoom keeping a room whose last player left (a fault C16 detects)
LeaveRoomRooms_KeepEmpty(rm, c, roomCode) ==
    IF roomCode \notin DOMAIN rm THEN rm
    ELSE RoomsSet(rm, roomCode,
                  [rm[roomCode] EXCEPT !.players = Filter(rm[roomCode].players, c)])

\* leaveRoom starting a fresh game for the players that remain (a fault C29
\* detects)
LeaveRoomRooms_Reset(rm, c, roomCode) ==
    IF roomCode \notin DOMAIN rm THEN rm
    ELSE LET remainingPlayers == Filter(rm[roomCode].players, c) IN
         IF Len(remainingPlayers) = 0
         THEN RoomsDelete(rm, roomCode)
         ELSE RoomsSet(rm, roomCode, NewRoom(remainingPlayers))

\* leaveRoom(socket, roomCode): the registry after the call
LeaveRoomRooms(rm, c, roomCode) ==
    IF roomCode \notin DOMAIN rm THEN rm
    ELSE LET remainingPlayers == Filter(rm[roomCode].players, c) IN
         IF Len(remainingPlayers) = 0
         THEN RoomsDelete(rm, roomCode)
         ELSE RoomsSet(rm, roomCode, [rm[roomCode] EXCEPT !.players = remainingPlayers])

\* leaveRoom(socket, roomCode): socket.to(roomCode).emit('player_left'), under
\* the room membership sr
LeaveRoomEmits(rm, sr, c, roomCode) ==
    IF roomCode \notin DOMAIN rm THEN {}
    ELSE {Msg("player_left", d, roomCode) : d \in Members(sr, roomCode) \ {c}}

\* leaveRoom(socket, roomCode): socket.leave(roomCode), only when the room exists
LeaveRoomSockets(rm, sr, c, roomCode) ==
    IF roomCode \notin DOMAIN rm THEN sr ELSE SocketLeave(sr, c, roomCode)

\* socket.on('leave_room', () => ...): leaves the socket's second socket.io room
LeaveRoom(c) ==
    LET roomCode == SecondRoom(c) IN
    /\ Step
    /\ c \in connected
    /\ last' = Handled("leave_room", c, NoCode, roomCode, NoPos)
    /\ IF roomCode # NoCode
       THEN /\ rooms' = LeaveRoomRooms(rooms, c, roomCode)
            /\ socketRooms' = LeaveRoomSockets(rooms, socketRooms, c, roomCode)
            /\ emitted' = LeaveRoomEmits(rooms, socketRooms, c, roomCode)
       ELSE /\ emitted' = {}
            /\ UNCHANGED <<rooms, socketRooms>>
    /\ UNCHANGED <<waitingPlayers, connected, closed, crashed, gameState>>

\* the disconnect loop stopping after the first room (a fault C15 detects)
LeaveAll_FirstOnly(rm, c, codes) ==
    IF \E k \in codes : IsPlayer(rm[k], c)
    THEN LeaveRoomRooms(rm, c, CHOOSE k \in codes : IsPlayer(rm[k], c))
    ELSE rm

\* for (const [roomCode, room] of rooms.entries())
\*   if (room.players.some(p => p.id === socket.id)) leaveRoom(socket, roomCode)
RECURSIVE LeaveAll(_, _, _)
LeaveAll(rm, c, codes) ==
    IF codes = {} THEN rm
    ELSE LET roomCode == CHOOSE k \in codes : TRUE IN
         LeaveAll(IF IsPlayer(rm[roomCode], c) THEN LeaveRoomRooms(rm, c, roomCode) ELSE rm,
                  c, codes \ {roomCode})

\* socket.on('disconnect', () => ...): socket.io has emptied socket.rooms before
\* the handler runs
Disconnect(c) ==
    LET sr == [socketRooms EXCEPT ![c] = << >>] IN
    /\ Step
    /\ c \in connected
    /\ connected' = connected \ {c}
    /\ closed' = closed \cup {c}
    /\ waitingPlayers' = RemoveFirst(waitingPlayers, c)
    /\ rooms' = LeaveAll(rooms, c, DOMAIN rooms)
    /\ socketRooms' = sr
    /\ emitted' = UNION {LeaveRoomEmits(rooms, sr, c, roomCode)
                         : roomCode \in {k \in DOMAIN rooms : IsPlayer(rooms[k], c)}}
    /\ last' = Handled("disconnect", c, NoCode, NoCode, NoPos)
    /\ UNCHANGED <<crashed, gameState>>

Next ==
    \/ \E c \in Conns : Connection(c)
    \/ \E c \in Conns : \E req \in Codes \cup {NoCode} :
           \E gen \in (IF req = NoCode THEN Nanoid ELSE {req}) : CreateRoom(c, req, gen)
    \/ \E c \in Conns : \E roomCode \in Codes \cup {NoCode} : JoinRoom(c, roomCode)
    \/ \E c \in Conns : \E position \in Positions :
           \E symbol \in Symbols : MakeMove(c, position, symbol, ClientBoard(symbol))
    \/ \E c \in Conns : MakeMoveNoData(c)
    \/ \E c \in Conns : \E gen \in Nanoid : FindRandomMatch(c, gen)
    \/ \E c \in Conns : CancelRandomMatch(c)
    \/ \E c \in Conns : LeaveRoom(c)
    \/ \E c \in Conns : Disconnect(c)

Spec == Init /\ [][Next]_vars

\* ------------------------------------------------------------------ the room-code variant
\* The server variant whose makeMove and leaveRoom take the room code from the
\* client (unnamed/part_002).  Its createRoom, joinRoom, findMatch, cancelMatch
\* and disconnect handlers and its leaveRoom helper are those above without
\* the try/catch, createRoom always drawing the code from nanoid; its events
\* are written here under the names of index-clean.js (moveMade = move_made,
\* playerLeft = player_left, ...).

\* socket.on('makeMove', ({ roomCode, position }) => ...): every rejection is silent
MakeMoveExplicit(c, roomCode, position) ==
    LET got == RoomsGet(rooms, roomCode)
        idx == IF got = << >> THEN 0 ELSE FindPlayer(got[1].players, c)
    IN
    /\ Step
    /\ c \in connected
    /\ last' = Handled("make_move", c, roomCode, roomCode, position)
    /\ IF got = << >>
       THEN /\ emitted' = {}
            /\ UNCHANGED rooms
       ELSE IF idx = 0
       THEN /\ emitted' = {}
            /\ UNCHANGED rooms
       ELSE IF NotYourTurn(got[1], got[1].players[idx])
       THEN /\ emitted' = {}
            /\ UNCHANGED rooms
       ELSE IF CellFree(got[1], position)
       THEN LET player == got[1].players[idx]
                room == [got[1] EXCEPT
                            !.board[position] = player.symbol,
                            !.currentTurn = OtherSymbol(player.symbol)]
            IN  /\ rooms' = RoomsSet(rooms, roomCode, room)
                /\ emitted' = {MoveMade(d, roomCode, position, player, room)
                                : d \in Members(socketRooms, roomCode)}
       ELSE /\ emitted' = {}
            /\ UNCHANGED rooms
    /\ UNCHANGED <<waitingPlayers, socketRooms, connected, closed, crashed, gameState>>

\* socket.on('leaveRoom', (roomCode) => { leaveRoom(socket, roomCode); })
LeaveRoomExplicit(c, roomCode) ==
    /\ Step
    /\ c \in connected
    /\ last' = Handled("leave_room", c, roomCode, roomCode, NoPos)
    /\ rooms' = LeaveRoomRooms(rooms, c, roomCode)
    /\ socketRooms' = LeaveRoomSockets(rooms, socketRooms, c, roomCode)
    /\ emitted' = LeaveRoomEmits(rooms, socketRooms, c, roomCode)
    /\ UNCHANGED <<waitingPlayers, connected, closed, crashed, gameState>>

NextExplicit ==
    \/ \E c \in Conns : Connection(c)
    \/ \E c \in Conns : \E gen \in Nanoid : CreateRoom(c, NoCode, gen)
    \/ \E c \in Conns : \E roomCode \in Codes : JoinRoom(c, roomCode)
    \/ \E c \in Conns : \E roomCode \in Codes : \E position \in Positions :
           MakeMoveExplicit(c, roomCode, position)
    \/ \E c \in Conns : \E gen \in Nanoid : FindRandomMatch(c, gen)
    \/ \E c \in Conns : CancelRandomMatch(c)
    \/ \E c \in Conns : \E roomCode \in Codes \cup {NoCode} : LeaveRoomExplicit(c, roomCode)
    \/ \E c \in Conns : Disconnect(c)

SpecExplicit == Init /\ [][NextExplicit]_vars

\* ------------------------------------------------------------------ the unguarded variant
\* The server variant without try/catch (unnamed/part_001).  With a data object
\* its handlers do what those of index-clean.js do; without one, create_room
\* and join_room read data.roomCode and make_move destructures data, each as
\* its first statement.

\* a handler of part_001 called without a data object: the TypeError is caught
\* nowhere (the file installs no uncaughtException handler), so the Node
\* process exits: registry and queue are lost and every socket is dropped
NoDataThrows(op, c) ==
    /\ Step
    /\ c \in connected
    /\ crashed' = TRUE
    /\ rooms' = << >>
    /\ waitingPlayers' = << >>
    /\ socketRooms' = [d \in Conns |-> << >>]
    /\ connected' = {}
    /\ closed' = closed \cup connected
    /\ emitted' = {}
    /\ last' = Handled(op, c, NoData, NoCode, NoPos)
    /\ UNCHANGED gameState

NextBare ==
    \/ \E c \in Conns : Connection(c)
    \/ \E c \in Conns : \E req \in Codes \cup {NoCode} :
           \E gen \in (IF req = NoCode THEN Nanoid ELSE {req}) : CreateRoom(c, req, gen)
    \/ \E c \in Conns : \E roomCode \in Codes \cup {NoCode} : JoinRoom(c, roomCode)
    \/ \E c \in Conns : \E position \in Positions :
           \E symbol \in Symbols : MakeMove(c, position, symbol, ClientBoard(symbol))
    \/ \E c \in Conns : \E op \in {"create_room", "join_room", "make_move"} :
           NoDataThrows(op, c)
    \/ \E c \in Conns : \E gen \in Nanoid : FindRandomMatch(c, gen)
    \/ \E c \in Conns : CancelRandomMatch(c)
    \/ \E c \in Conns : LeaveRoom(c)
    \/ \E c \in Conns : Disconnect(c)

SpecBare == Init /\ [][NextBare]_vars

\* ------------------------------------------------------------------ a game in progress
\* A run of index-clean.js that starts where two sockets have just been paired:
\* sockets 1 and 2 connected, 1 sought a match, then 2, and the pairing drew
\* code 1.  From there the two clients send make_move for any of the nine cells,
\* at any time, with the payload App.tsx builds: their own symbol and the board
\* with that symbol in the cell.

InPlay ==
    /\ rooms = RoomsSet(<< >>, 1, PairedRoom(1, 2))
    /\ waitingPlayers = << >>
    /\ socketRooms = [c \in Conns |-> IF c \in {1, 2} THEN <<1>> ELSE << >>]
    /\ connected = {1, 2}
    /\ closed = {}
    /\ emitted = {[event |-> "match_found", to |-> d, room |-> 1,
                    players |-> PairedRoom(1, 2).players,
                    currentTurn |-> "X"] : d \in {1, 2}}
    /\ last = Handled("find_random_match", 2, NoCode, 1, NoPos)
    /\ crashed = FALSE
    /\ gameState = initialGameState

InitPlay ==
    /\ InPlay
    /\ steps = 0

NextPlay ==
    \E c \in {1, 2} : \E position \in 0..(BoardSize - 1) :
        LET symbol == PairedRoom(1, 2).players[c].symbol IN
        MakeMove(c, position, symbol, [rooms[1].board EXCEPT ![position] = symbol])

SpecPlay == InitPlay /\ [][NextPlay]_vars

\* ------------------------------------------------------------------ the local game
\* The client's two-player game on one device (App.tsx, gameMode 'friend',
\* gameType 'normal'): every click goes through handleCellClick, which is where
\* checkWinner is applied to the boards of a game.

\* const handleCellClick = (index) => ...: a click on an occupied cell or after
\* the game was decided is ignored
handleCellClick(index) ==
    IF gameState.board[index] # Null \/ gameState.winner # Null
    THEN UNCHANGED vars
    ELSE LET newBoard == [gameState.board EXCEPT ![index] = gameState.currentPlayer]
             result == checkWinner(newBoard)
         IN  /\ gameState' = [board |-> newBoard,
                              currentPlayer |-> OtherSymbol(gameState.currentPlayer),
                              winner |-> result.winner,
                              winningLine |-> result.line]
             /\ UNCHANGED <<rooms, waitingPlayers, socketRooms, connected, closed,
                            emitted, last, steps, crashed>>

NextLocal == \E index \in 0..(BoardSize - 1) : handleCellClick(index)

SpecLocal == Init /\ [][NextLocal]_vars

\* ------------------------------------------------------------------ properties
\* the step just taken delivered event `op` from socket c to the server
Delivered(op, c) ==
    /\ steps' = steps + 1
    /\ last'.op = op
    /\ last'.conn = c

InRange(position) == position \in 0..(BoardSize - 1)

NoMoveMade(events) == \A e \in events : e.event # "move_made"

\* socket c is a player of the room its make_move is applied to, and the symbol
\* it is registered with there is not the room's currentTurn
OutOfTurn(c) ==
    LET roomCode == SecondRoom(c) IN
    /\ roomCode \in DOMAIN rooms
    /\ \E i \in 1..Len(rooms[roomCode].players) :
          /\ rooms[roomCode].players[i].id = c
          /\ \A j \in 1..(i - 1) : rooms[roomCode].players[j].id # c
          /\ rooms[roomCode].players[i].symbol # rooms[roomCode].currentTurn

\* C1: a make_move from a room member whose registered symbol differs from the
\* room's currentTurn is always rejected, whatever cell it names: the registry
\* (board and currentTurn included) is unchanged and no move_made is delivered
\* to any connection.
C1_OutOfTurnRejected ==
    [][\A c \in Conns :
          (Delivered("make_move", c) /\ OutOfTurn(c))
              => (rooms' = rooms /\ NoMoveMade(emitted'))]_vars

\* C1 witness: an out-of-turn make_move on an empty cell has just been rejected.
C1_Witness ==
    /\ last.op = "make_move"
    /\ InRange(last.pos)
    /\ last.code \in DOMAIN rooms
    /\ rooms[last.code].board[last.pos] = Null
    /\ Len(rooms[last.code].players) = 2
    /\ emitted = {[event |-> "error", to |-> last.conn, msg |-> "Not your turn"]}

\* the position of a make_move of socket c names no empty cell of the targeted room
BadCell(c, position) ==
    \/ ~InRange(position)
    \/ /\ SecondRoom(c) \in DOMAIN rooms
       /\ rooms[SecondRoom(c)].board[position] # Null

\* C2: a make_move whose position names a non-null cell, or lies outside 0..8,
\* is always rejected: the board and currentTurn of every room are as before
\* and no move_made is emitted.
C2_BadCellRejected ==
    [][\A c \in Conns :
          (Delivered("make_move", c) /\ BadCell(c, last'.pos))
              => (rooms' = rooms /\ NoMoveMade(emitted'))]_vars

\* C2 witness: the player whose turn it is has just named an occupied cell and
\* the move was dropped.
C2_Witness ==
    /\ last.op = "make_move"
    /\ InRange(last.pos)
    /\ last.code \in DOMAIN rooms
    /\ rooms[last.code].board[last.pos] # Null
    /\ \E i \in 1..Len(rooms[last.code].players) :
          /\ rooms[last.code].players[i].id = last.conn
          /\ rooms[last.code].players[i].symbol = rooms[last.code].currentTurn
    /\ emitted = {}

\* the step just taken registered a new room under code r
Registered(r) ==
    /\ steps' = steps + 1
    /\ last'.op \in {"create_room", "find_random_match"}
    /\ last'.code = r

\* the step just taken is an accepted move in room r: the board of r differs in
\* exactly one cell, which was empty and now holds the former currentTurn, and
\* currentTurn has flipped
AcceptedMove(r) ==
    /\ steps' = steps + 1
    /\ last'.op = "make_move"
    /\ last'.code = r
    /\ \E p \in 0..(BoardSize - 1) :
          /\ rooms[r].board[p] = Null
          /\ rooms'[r].board[p] = rooms[r].currentTurn
          /\ \A q \in 0..(BoardSize - 1) \ {p} : rooms'[r].board[q] = rooms[r].board[q]
    /\ rooms'[r].currentTurn # rooms[r].currentTurn
    /\ rooms'[r].currentTurn \in Symbols
    /\ \A e \in emitted' : e.event = "move_made" /\ e.symbol = rooms[r].currentTurn

\* C3: in every room the accepted moves alternate X, O, X, ... starting with X:
\* a room is registered with currentTurn X and an empty board, every change of
\* its board is an accepted move of the symbol currentTurn named, currentTurn
\* flips on each accepted move and changes at no other step.
C3_TurnsAlternate ==
    [][\A r \in Codes :
          /\ (r \in DOMAIN rooms' /\ (r \notin DOMAIN rooms \/ Registered(r)))
                => (rooms'[r].currentTurn = "X" /\ rooms'[r].board = EmptyBoard)
          /\ (r \in DOMAIN rooms /\ r \in DOMAIN rooms' /\ ~Registered(r))
                => \/ AcceptedMove(r)
                   \/ /\ rooms'[r].board = rooms[r].board
                      /\ rooms'[r].currentTurn = rooms[r].currentTurn]_vars

\* C3 witness: O has just moved after X in a room, and it is X's turn again.
C3_Witness ==
    /\ last.op = "make_move"
    /\ last.code \in DOMAIN rooms
    /\ \E e \in emitted : e.event = "move_made" /\ e.symbol = "O"
    /\ \E p \in 0..(BoardSize - 1) : rooms[last.code].board[p] = "X"
    /\ rooms[last.code].currentTurn = "X"

Count(players, symbol) == Cardinality({i \in 1..Len(players) : players[i].symbol = symbol})

\* C4: every room's players list holds at most one player with symbol X and at
\* most one with symbol O, and its first entry has symbol X.
C4_OneXOneOFirstX ==
    \A r \in DOMAIN rooms :
        /\ Count(rooms[r].players, "X") <= 1
        /\ Count(rooms[r].players, "O") <= 1
        /\ rooms[r].players[1].symbol = "X"

\* C5: every room in the registry has at most 2 entries in its players list.
C5_AtMostTwoPlayers == \A r \in DOMAIN rooms : Len(rooms[r].players) <= 2

\* C5 witness: a join_room has just filled a room to two players.
C5_Witness ==
    /\ last.op = "join_room"
    /\ last.code \in DOMAIN rooms
    /\ Len(rooms[last.code].players) = 2
    /\ \E e \in emitted : e.event = "game_start"

\* C6: every game_start emitted on a successful join_room carries currentTurn
\* X and a players list of exactly one X player and one O player.
C6_GameStartPayload ==
    \A e \in emitted :
        e.event = "game_start"
            => /\ e.currentTurn = "X"
               /\ Len(e.players) = 2
               /\ Count(e.players, "X") = 1
               /\ Count(e.players, "O") = 1

\* C7: create_room with an explicitly requested code that is already registered
\* fails: the existing room's players, board and currentTurn are unchanged and
\* no room is registered for the requester.
C7_CollisionRejected ==
    [][\A c \in Conns :
          (Delivered("create_room", c) /\ last'.req # NoCode /\ last'.req \in DOMAIN rooms)
              => rooms' = rooms]_vars

\* C8: create_room without a requested code, and a matchmaking pairing, register
\* the new room under a code that is not in the registry, and leave every
\* existing room as it was.
C8_FreshGeneratedCode ==
    [][\A c \in Conns :
          (\/ Delivered("create_room", c) /\ last'.req = NoCode
           \/ Delivered("find_random_match", c) /\ last'.code # NoCode)
              => /\ last'.code \notin DOMAIN rooms
                 /\ \A r \in DOMAIN rooms : r \in DOMAIN rooms' /\ rooms'[r] = rooms[r]]_vars

\* C9: join_room on a room that already has 2 players fails with 'Room is full'
\* to the sender only and leaves the room's players, board and currentTurn (the
\* whole registry) unchanged.
C9_FullRoomRejected ==
    [][\A c \in Conns :
          (/\ Delivered("join_room", c)
           /\ last'.req \in DOMAIN rooms
           /\ Len(rooms[last'.req].players) = 2)
              => /\ emitted' = {[event |-> "error", to |-> c, msg |-> "Room is full"]}
                 /\ rooms' = rooms
                 /\ socketRooms' = socketRooms]_vars

\* C9 witness: a join_room on a two-player room has just been answered with
\* 'Room is full'.
C9_Witness ==
    /\ last.op = "join_room"
    /\ last.req \in DOMAIN rooms
    /\ Len(rooms[last.req].players) = 2
    /\ \E e \in emitted : e.event = "error" /\ e.msg = "Room is full" /\ e.to = last.conn

\* C10: join_room with a code that is not in the registry fails with 'Room not
\* found' to the sender only, creates no room and leaves the registry and the
\* queue unchanged.
C10_UnknownRoomRejected ==
    [][\A c \in Conns :
          (/\ Delivered("join_room", c)
           /\ last'.req # NoCode
           /\ last'.req \notin DOMAIN rooms)
              => /\ emitted' = {[event |-> "error", to |-> c, msg |-> "Room not found"]}
                 /\ rooms' = rooms
                 /\ waitingPlayers' = waitingPlayers]_vars

\* C10 witness: a join_room on an unregistered code has just been answered with
\* 'Room not found', while another room exists.
C10_Witness ==
    /\ last.op = "join_room"
    /\ last.req # NoCode
    /\ last.req \notin DOMAIN rooms
    /\ DOMAIN rooms # {}
    /\ \E e \in emitted : e.event = "error" /\ e.msg = "Room not found" /\ e.to = last.conn

PlayerIds(room) == {room.players[i].id : i \in 1..Len(room.players)}

\* the rooms that list socket c as a player
RoomsOf(c) == {r \in DOMAIN rooms : c \in PlayerIds(rooms[r])}

\* C11: a connection is a member (an entry of the players list) of at most one
\* room at any time.
C11_AtMostOneRoom == \A c \in Conns : Cardinality(RoomsOf(c)) <= 1

Broadcasts == {"game_start", "move_made", "match_found"}

\* C12: every room broadcast (game_start, move_made, match_found) is delivered
\* to exactly the connections listed in the room's players list at the time of
\* the broadcast.
C12_BroadcastToPlayersOnly ==
    \A e \in emitted :
        e.event \in Broadcasts
            => /\ e.room \in DOMAIN rooms
               /\ {x.to : x \in {y \in emitted : y.event = e.event}}
                      = PlayerIds(rooms[e.room])

\* the symbol socket c is registered with in room r (its first entry)
SymbolIn(r, c) ==
    LET i == CHOOSE k \in 1..Len(rooms[r].players) :
                 /\ rooms[r].players[k].id = c
                 /\ \A j \in 1..(k - 1) : rooms[r].players[j].id # c
    IN rooms[r].players[i].symbol

\* C13: on an accepted make_move one move_made is sent to every member of the
\* room, the mover included, and every recipient gets the same payload: the
\* played position, the mover's symbol, the room's board after the move and the
\* flipped currentTurn.
C13_MoveMadeToAll ==
    [][\A c \in Conns :
          (Delivered("make_move", c) /\ rooms' # rooms)
              => LET r == last'.code
                     recipients == {e.to : e \in emitted'}
                 IN  /\ c \in recipients
                     /\ PlayerIds(rooms'[r]) \subseteq recipients
                     /\ Cardinality(emitted') = Cardinality(recipients)
                     /\ rooms'[r].currentTurn # rooms[r].currentTurn
                     /\ \A e \in emitted' :
                           e = [event |-> "move_made", to |-> e.to, room |-> r,
                                position |-> last'.pos,
                                symbol |-> SymbolIn(r, c),
                                board |-> rooms'[r].board,
                                currentTurn |-> rooms'[r].currentTurn]]_vars

\* C13 witness: a move in a two-player room has just been broadcast to both.
C13_Witness ==
    /\ last.op = "make_move"
    /\ last.code \in DOMAIN rooms
    /\ Cardinality(PlayerIds(rooms[last.code])) = 2
    /\ {e.to : e \in {y \in emitted : y.event = "move_made"}} = PlayerIds(rooms[last.code])

\* C14: when a connection leaves a room or disconnects, player_left is delivered
\* only to a member that remains in the players list of a room the connection
\* was a player of; to nobody when no member remains, and never for a room that
\* lost no member.
C14_PlayerLeftToRemaining ==
    [][\A e \in emitted' :
          (steps' = steps + 1 /\ e.event = "player_left")
              => /\ last'.op \in {"leave_room", "disconnect"}
                 /\ e.room \in DOMAIN rooms
                 /\ last'.conn \in PlayerIds(rooms[e.room])
                 /\ e.room \in DOMAIN rooms'
                 /\ e.to \in PlayerIds(rooms'[e.room])]_vars

\* C15: after a disconnect of connection c has been processed, c is in the
\* matchmaking queue no longer and appears in no room's players list.
C15_DisconnectCleansUp ==
    \A c \in closed :
        /\ c \notin Range(waitingPlayers)
        /\ RoomsOf(c) = {}

\* C15 witness: a socket that shared a room has just disconnected and its peer
\* was told.
C15_Witness ==
    /\ last.op = "disconnect"
    /\ last.conn \in closed
    /\ \E e \in emitted : e.event = "player_left"

\* C16: no room in the registry has an empty players list: when a leave_room
\* or disconnect removes the only remaining player of a room, the room is
\* deleted (so that a later join_room on its code finds no room).
C16_NoEmptyRoom ==
    /\ [](\A r \in DOMAIN rooms : Len(rooms[r].players) >= 1)
    /\ [][\A c \in Conns : \A r \in DOMAIN rooms :
            (/\ PlayerIds(rooms[r]) = {c}
             /\ \/ Delivered("disconnect", c)
                \/ Delivered("leave_room", c) /\ last'.code = r)
                => r \notin DOMAIN rooms']_vars

\* C16 witness: a leave_room has just removed the last player of a room and
\* the room is gone.
C16_Witness ==
    /\ last.op = "leave_room"
    /\ last.code # NoCode
    /\ last.code \notin DOMAIN rooms
    /\ last.code \notin Range(socketRooms[last.conn])
    /\ emitted = {}

\* position of d in the queue q
QueuePos(q, d) == CHOOSE i \in 1..Len(q) : q[i] = d

\* C17: matchmaking pairs strictly in arrival order: the queue keeps the
\* seekers in the order they arrived, a new seeker is put last, and a pairing
\* takes the two earliest seekers among those waiting and the one arriving, the
\* earlier one as the first player; with seekers A, B, C in this order, A is
\* paired with B and C is not paired before them.
C17_PairsInArrivalOrder ==
    [][steps' = steps + 1 =>
          /\ \A d, e \in Range(waitingPlayers) \cap Range(waitingPlayers') :
                QueuePos(waitingPlayers, d) < QueuePos(waitingPlayers, e)
                    => QueuePos(waitingPlayers', d) < QueuePos(waitingPlayers', e)
          /\ \A d \in Range(waitingPlayers') \ Range(waitingPlayers) :
                /\ last'.op = "find_random_match"
                /\ last'.conn = d
                /\ waitingPlayers'[Len(waitingPlayers')] = d
          /\ (last'.op = "find_random_match" /\ last'.code # NoCode)
                => LET arrivals == waitingPlayers \o <<last'.conn>>
                       players == rooms'[last'.code].players
                   IN  /\ Len(players) = 2
                       /\ players[1].id = arrivals[1]
                       /\ players[2].id = arrivals[2]]_vars

\* C17 witness: sockets 1, 2, 3 sought a match in this order; 1 and 2 share a
\* room and 3 waits.
C17_Witness ==
    /\ last.op = "find_random_match"
    /\ last.conn = 3
    /\ waitingPlayers = <<3>>
    /\ \E r \in DOMAIN rooms :
          rooms[r].players = <<[id |-> 1, symbol |-> "X"], [id |-> 2, symbol |-> "O"]>>
    /\ steps = 6

\* C18: find_random_match from a connection that is not queued, while another
\* seeker waits, removes the earliest seeker from the queue and registers a new
\* room with that seeker as X and the new one as O, an all-null board and
\* currentTurn X; neither is queued afterwards and match_found goes to both.
C18_PairingCreatesRoom ==
    [][\A c \in Conns :
          (/\ Delivered("find_random_match", c)
           /\ c \notin Range(waitingPlayers)
           /\ waitingPlayers # << >>)
              => LET opp == waitingPlayers[1]
                     r == last'.code
                 IN  /\ r \in DOMAIN rooms'
                     /\ rooms'[r] = [players |-> <<[id |-> opp, symbol |-> "X"],
                                                   [id |-> c, symbol |-> "O"]>>,
                                     currentTurn |-> "X",
                                     board |-> [i \in 0..8 |-> Null]]
                     /\ waitingPlayers' = Tail(waitingPlayers)
                     /\ opp \notin Range(waitingPlayers')
                     /\ c \notin Range(waitingPlayers')
                     /\ \A d \in {opp, c} :
                           \E e \in emitted' :
                               e.event = "match_found" /\ e.to = d /\ e.room = r]_vars

\* C18 witness: a pairing has just happened and match_found went to two sockets.
C18_Witness ==
    /\ last.op = "find_random_match"
    /\ last.code \in DOMAIN rooms
    /\ Cardinality({e.to : e \in {y \in emitted : y.event = "match_found"}}) = 2

\* C19: find_random_match arriving while the queue is empty appends the
\* connection to the queue, sends waiting_for_match to it alone and creates or
\* changes no room; so a third seeker, after two were paired, gets
\* waiting_for_match.
C19_EmptyQueueWaits ==
    [][\A c \in Conns :
          (Delivered("find_random_match", c) /\ waitingPlayers = << >>)
              => /\ waitingPlayers' = <<c>>
                 /\ emitted' = {[event |-> "waiting_for_match", to |-> c, room |-> NoCode]}
                 /\ rooms' = rooms]_vars

\* C19 witness: with a two-player room registered, a seeker has just been told
\* to wait.
C19_Witness ==
    /\ last.op = "find_random_match"
    /\ \E r \in DOMAIN rooms :
          /\ Cardinality(PlayerIds(rooms[r])) = 2
          /\ last.conn \notin PlayerIds(rooms[r])
    /\ \E e \in emitted : e.event = "waiting_for_match" /\ e.to = last.conn
    /\ waitingPlayers = <<last.conn>>

\* C20: a connection identifier occurs at most once in the matchmaking queue,
\* and find_random_match from a connection that is already queued changes
\* neither the queue nor any room and emits nothing.
C20_QueuedOnce ==
    /\ [](\A i, j \in 1..Len(waitingPlayers) :
              waitingPlayers[i] = waitingPlayers[j] => i = j)
    /\ [][\A c \in Conns :
            (Delivered("find_random_match", c) /\ c \in Range(waitingPlayers))
                => /\ waitingPlayers' = waitingPlayers
                   /\ rooms' = rooms
                   /\ socketRooms' = socketRooms
                   /\ emitted' = {}]_vars

\* C20 witness: a queued connection has just sent find_random_match again.
C20_Witness ==
    /\ last.op = "find_random_match"
    /\ last.conn \in Range(waitingPlayers)
    /\ emitted = {}

\* C21: cancel_random_match removes the sender from the queue when it is there
\* and changes nothing otherwise, so a second cancel_random_match in a row is a
\* no-op; it keeps the other seekers in their order, emits no event (no error
\* either) to any connection and never changes any room.
C21_CancelIdempotent ==
    [][\A c \in Conns :
          Delivered("cancel_random_match", c)
              => /\ c \notin Range(waitingPlayers')
                 /\ c \notin Range(waitingPlayers) => waitingPlayers' = waitingPlayers
                 /\ \A d \in Range(waitingPlayers) \ {c} : d \in Range(waitingPlayers')
                 /\ Len(waitingPlayers') <= Len(waitingPlayers)
                 /\ (last.op = "cancel_random_match" /\ last.conn = c)
                        => waitingPlayers' = waitingPlayers
                 /\ emitted' = {}
                 /\ rooms' = rooms
                 /\ socketRooms' = socketRooms
                 /\ ~crashed']_vars

\* C21 witness: a connection that is not queued has just cancelled while
\* another seeker waits, and the seeker still waits.
C21_Witness ==
    /\ last.op = "cancel_random_match"
    /\ waitingPlayers # << >>
    /\ last.conn \notin Range(waitingPlayers)
    /\ emitted = {}

\* C22: leave_room is idempotent: a leave_room that directly follows a
\* leave_room of the same connection (for the same room code, where the client
\* names one) leaves the registry and the queue as they were and delivers no
\* player_left.
C22_LeaveIdempotent ==
    [][\A c \in Conns :
          (/\ Delivered("leave_room", c)
           /\ last.op = "leave_room"
           /\ last.conn = c
           /\ last'.req = last.req)
              => /\ rooms' = rooms
                 /\ waitingPlayers' = waitingPlayers
                 /\ \A e \in emitted' : e.event # "player_left"]_vars

\* C23: after a create_room the room registered under the code (the requested
\* one, when the client sent one) has exactly one player, the creator, with
\* symbol X, a board of 9 null cells and currentTurn X, and room_created
\* carrying the room code is sent to the creator only.
C23_CreatedRoom ==
    [][\A c \in Conns :
          Delivered("create_room", c)
              => LET r == last'.code IN
                 /\ r \in Codes
                 /\ last'.req # NoCode => r = last'.req
                 /\ r \in DOMAIN rooms'
                 /\ rooms'[r] = [players |-> <<[id |-> c, symbol |-> "X"]>>,
                                 currentTurn |-> "X",
                                 board |-> [i \in 0..8 |-> Null]]
                 /\ emitted' = {[event |-> "room_created", to |-> c, room |-> r]}]_vars

\* C23 witness: with two other sockets connected, a socket has just created a
\* room under the code it asked for and it alone was told.
C23_Witness ==
    /\ last.op = "create_room"
    /\ last.req # NoCode
    /\ Cardinality(connected) = 3
    /\ last.req \in DOMAIN rooms
    /\ PlayerIds(rooms[last.req]) = {last.conn}
    /\ emitted = {[event |-> "room_created", to |-> last.conn, room |-> last.req]}

\* C25: the symbol an accepted make_move writes to the board is the mover's
\* symbol as registered in the room's players list, and the board after it
\* differs from the server's board before it in exactly the played cell, which
\* was empty, whatever symbol and board the payload carried.
C25_ServerDerivesBoard ==
    [][\A c \in Conns :
          (Delivered("make_move", c) /\ rooms' # rooms)
              => LET r == last'.code IN
                 /\ r \in DOMAIN rooms
                 /\ c \in PlayerIds(rooms[r])
                 /\ InRange(last'.pos)
                 /\ rooms[r].board[last'.pos] = Null
                 /\ rooms'[r].board[last'.pos] = SymbolIn(r, c)
                 /\ \A q \in 0..(BoardSize - 1) \ {last'.pos} :
                       rooms'[r].board[q] = rooms[r].board[q]
                 /\ \A e \in emitted' : e.event = "move_made" /\ e.symbol = SymbolIn(r, c)]_vars

\* C25 witness: a payload naming the other player's symbol has just been
\* accepted as a move, and the board holds the mover's registered symbol.
C25_Witness ==
    /\ last.op = "make_move"
    /\ last.code \in DOMAIN rooms
    /\ InRange(last.pos)
    /\ \E e \in emitted : e.event = "move_made"
    /\ rooms[last.code].board[last.pos] \in Symbols
    /\ rooms[last.code].board[last.pos] # last.sym
    /\ Len(rooms[last.code].players) = 2

\* C24: a room that is playing becomes ended when a win is detected: once a
\* room's board contains a completed line of three equal symbols, no further
\* make_move is accepted in that room (its board stays as it is).
C24_NoMoveAfterLine ==
    [][\A r \in DOMAIN rooms :
          (/\ checkWinner(rooms[r].board).winner \in Symbols
           /\ steps' = steps + 1
           /\ last'.op = "make_move"
           /\ last'.code = r)
              => /\ r \in DOMAIN rooms'
                 /\ rooms'[r].board = rooms[r].board]_vars

\* the make_move of socket c targets no room that lists c as a player
NonMember(c) ==
    \/ SecondRoom(c) \notin DOMAIN rooms
    \/ c \notin PlayerIds(rooms[SecondRoom(c)])

\* the join_room of socket c with code req is one the server must reject
BadJoin(req) ==
    \/ req = NoCode
    \/ req \notin DOMAIN rooms
    \/ Len(rooms[req].players) >= 2

\* C26: every rejected intent (join_room on an unknown or full room or without
\* a code; make_move by a non-member, out of turn, or on an occupied or
\* out-of-range cell) leaves the whole registry and the queue unchanged, and
\* every event it produces is an error event delivered to the sender.
C26_RejectionsHarmless ==
    [][\A c \in Conns :
          (\/ Delivered("join_room", c) /\ BadJoin(last'.req)
           \/ /\ Delivered("make_move", c)
              /\ (NonMember(c) \/ OutOfTurn(c) \/ BadCell(c, last'.pos)))
              => /\ rooms' = rooms
                 /\ waitingPlayers' = waitingPlayers
                 /\ socketRooms' = socketRooms
                 /\ \A e \in emitted' : e.event = "error" /\ e.to = c]_vars

\* C26 witness: while a room exists and a seeker waits, a socket that is in no
\* room has just sent make_move and it alone got the error.
C26_Witness ==
    /\ last.op = "make_move"
    /\ InRange(last.pos)
    /\ DOMAIN rooms # {}
    /\ waitingPlayers # << >>
    /\ emitted = {[event |-> "error", to |-> last.conn, msg |-> "Not in any room"]}

\* C28: a make_move or join_room, accepted or rejected, changes at most the one
\* room it targets: no room is added or removed, the players, board and
\* currentTurn of every other room are unchanged, and so is the queue.
C28_OtherRoomsUntouched ==
    [][\A c \in Conns :
          (Delivered("make_move", c) \/ Delivered("join_room", c))
              => /\ DOMAIN rooms' = DOMAIN rooms
                 /\ \A r \in DOMAIN rooms \ {last'.code} : rooms'[r] = rooms[r]
                 /\ waitingPlayers' = waitingPlayers]_vars

\* C28 witness: with two rooms registered and a seeker waiting, a move has
\* just been accepted in one of the rooms.
C28_Witness ==
    /\ last.op = "make_move"
    /\ \E e \in emitted : e.event = "move_made"
    /\ Cardinality(DOMAIN rooms) = 2
    /\ \E r \in DOMAIN rooms \ {last.code} : rooms[r].board = EmptyBoard
    /\ waitingPlayers # << >>

\* C29: a player's departure (leave_room or disconnect) and a join_room leave
\* the board and currentTurn of every room that stays registered unchanged; a
\* departure leaves every remaining player's entry (id and symbol) as it was,
\* and a join_room leaves the entries of the players already listed as they
\* were.
C29_BoardOnlyByMove ==
    [][\A c \in Conns : \A r \in (DOMAIN rooms) \cap (DOMAIN rooms') :
          /\ (Delivered("leave_room", c) \/ Delivered("disconnect", c)
                 \/ Delivered("join_room", c))
                => /\ rooms'[r].board = rooms[r].board
                   /\ rooms'[r].currentTurn = rooms[r].currentTurn
          /\ (Delivered("leave_room", c) \/ Delivered("disconnect", c))
                => \A i \in 1..Len(rooms'[r].players) :
                       \E j \in 1..Len(rooms[r].players) :
                           rooms[r].players[j] = rooms'[r].players[i]
          /\ Delivered("join_room", c)
                => \A j \in 1..Len(rooms[r].players) :
                       rooms'[r].players[j] = rooms[r].players[j]]_vars

\* C29 witness: a player has just left a room in which a move was made; the
\* other player remains, with the board as it was.
C29_Witness ==
    /\ last.op \in {"leave_room", "disconnect"}
    /\ \E e \in emitted :
          /\ e.event = "player_left"
          /\ e.room \in DOMAIN rooms
          /\ rooms[e.room].board # EmptyBoard
          /\ rooms[e.room].currentTurn = "O"
          /\ PlayerIds(rooms[e.room]) = {e.to}

\* the eight lines of the 3 x 3 board: rows, columns and the two diagonals
Lines ==
    {{3 * i, 3 * i + 1, 3 * i + 2} : i \in 0..2}
        \cup {{i, i + 3, i + 6} : i \in 0..2}
        \cup {{0, 4, 8}, {2, 4, 6}}

\* symbol s holds all three cells of some line of the board
HasLine(board, s) == \E line \in Lines : \A cell \in line : board[cell] = s

\* C27: on every board reached from the empty 9-cell board by moves that
\* alternate X and O on empty cells and stop at the first win or a full board,
\* checkWinner returns exactly one outcome: winner X or O, with a line of three
\* cells that all hold the winner's symbol, when that symbol holds a line (X on
\* 0, 1, 2 gives winner X and line [0, 1, 2]); draw, without a line, when the
\* board is full and nobody holds a line; null, without a line, otherwise.
C27_CheckWinnerOutcome ==
    LET board == gameState.board
        result == checkWinner(board)
        full == \A cell \in 0..8 : board[cell] # Null
    IN  /\ gameState.winner = result.winner
        /\ gameState.winningLine = result.line
        /\ ~(HasLine(board, "X") /\ HasLine(board, "O"))
        /\ \A s \in Symbols :
              HasLine(board, s)
                  => /\ result.winner = s
                     /\ Len(result.line) = 3
                     /\ Range(result.line) \in Lines
                     /\ \A i \in 1..3 : board[result.line[i]] = s
        /\ (board[0] = "X" /\ board[1] = "X" /\ board[2] = "X")
              => result = [winner |-> "X", line |-> <<0, 1, 2>>]
        /\ (full /\ ~HasLine(board, "X") /\ ~HasLine(board, "O"))
              => result = [winner |-> "draw", line |-> << >>]
        /\ (~full /\ ~HasLine(board, "X") /\ ~HasLine(board, "O"))
              => result = [winner |-> Null, line |-> << >>]

\* C27 witness: X has just completed 0, 1, 2 and the game is decided for X
\* with that line.
C27_Witness ==
    /\ gameState.board[0] = "X"
    /\ gameState.board[1] = "X"
    /\ gameState.board[2] = "X"
    /\ gameState.winner = "X"
    /\ gameState.winningLine = <<0, 1, 2>>

\* C30: a create_room, join_room or make_move received without a data object
\* never crashes the server: the intent is discarded or answered with an error
\* to the sender, the registry and the queue are unchanged, and the server goes
\* on handling the intents of every connection.
C30_NoDataHarmless ==
    [][\A c \in Conns :
          (/\ steps' = steps + 1
           /\ last'.conn = c
           /\ last'.op \in {"create_room", "join_room", "make_move"}
           /\ last'.req = NoData)
              => /\ ~crashed'
                 /\ rooms' = rooms
                 /\ waitingPlayers' = waitingPlayers
                 /\ connected' = connected
                 /\ \A e \in emitted' : e.event = "error" /\ e.to = c]_vars

\* C31: the two entries of a two-player room's players list are always two
\* different connections.
C31_TwoDifferentPlayers ==
    \A r \in DOMAIN rooms :
        Len(rooms[r].players) = 2 => rooms[r].players[1].id # rooms[r].players[2].id

\* C32: no make_move is accepted in a room that has fewer than two players:
\* the board of such a room is not changed by a make_move.
C32_NoSoloMove ==
    [][\A r \in DOMAIN rooms :
          (/\ steps' = steps + 1
           /\ last'.op = "make_move"
           /\ last'.code = r
           /\ Len(rooms[r].players) < 2)
              => /\ r \in DOMAIN rooms'
                 /\ rooms'[r].board = rooms[r].board
                 /\ NoMoveMade(emitted')]_vars

\* C33: at every game_start emission the board of the room is all-null, also
\* when the join is into a room a previous player has left.
C33_GameStartsEmpty ==
    \A e \in emitted :
        e.event = "game_start"
            => /\ e.room \in DOMAIN rooms
               /\ rooms[e.room].board = EmptyBoard

\* C34: no deadlock in a live game: in every room with two players, an empty
\* cell and no completed line, some member is registered (by the entry the
\* server finds for it) with the symbol currentTurn names, so that its
\* make_move on an empty cell is accepted.
C34_SomeoneCanMove ==
    \A r \in DOMAIN rooms :
        (/\ Len(rooms[r].players) = 2
         /\ \E cell \in 0..(BoardSize - 1) : rooms[r].board[cell] = Null
         /\ checkWinner(rooms[r].board).winner \notin Symbols)
            => \E c \in PlayerIds(rooms[r]) : SymbolIn(r, c) = rooms[r].currentTurn

\* C35: in the room-inferring server a make_move by a connection that is a
\* player of room R, whose symbol there equals R's currentTurn and whose
\* position is an empty cell of R, is always applied to R, whatever other
\* rooms or queue slot the connection created, joined or was paired into.
C35_MoveReachesItsRoom ==
    [][\A c \in Conns : \A R \in DOMAIN rooms :
          (/\ Delivered("make_move", c)
           /\ c \in PlayerIds(rooms[R])
           /\ SymbolIn(R, c) = rooms[R].currentTurn
           /\ InRange(last'.pos)
           /\ rooms[R].board[last'.pos] = Null)
              => /\ R \in DOMAIN rooms'
                 /\ rooms'[R].board[last'.pos] = SymbolIn(R, c)]_vars

\* C36: in every reachable state the matchmaking queue holds at most one
\* connection.
C36_QueueAtMostOne == Len(waitingPlayers) <= 1

\* C36 witness: a seeker waited, a second connection has just sought a match
\* and was paired with it at once, and the queue is empty again.
C36_Witness ==
    /\ last.op = "find_random_match"
    /\ last.code \in DOMAIN rooms
    /\ Len(rooms[last.code].players) = 2
    /\ rooms[last.code].players[2].id = last.conn
    /\ waitingPlayers = << >>

\* number of cells of the board that hold symbol s
Cells(board, s) == Cardinality({cell \in 0..(BoardSize - 1) : board[cell] = s})

\* C37: in every room the number of X cells minus the number of O cells on
\* the board is 0 when currentTurn is X and 1 when currentTurn is O.
C37_CountsFollowTurn ==
    \A r \in DOMAIN rooms :
        Cells(rooms[r].board, "X") - Cells(rooms[r].board, "O")
            = (IF rooms[r].currentTurn = "X" THEN 0 ELSE 1)

\* C37 witness: X and O have each moved once in a room and it is X's turn.
C37_Witness ==
    \E r \in DOMAIN rooms :
        /\ Cells(rooms[r].board, "X") = 1
        /\ Cells(rooms[r].board, "O") = 1
        /\ rooms[r].currentTurn = "X"

\* C38: no room's board contains a completed line of X and a completed line
\* of O at the same time.
C38_OneWinnerAtMost ==
    \A r \in DOMAIN rooms : ~(HasLine(rooms[r].board, "X") /\ HasLine(rooms[r].board, "O"))

\* C39: a connection that is waiting in the matchmaking queue is not a player
\* of any room.
C39_QueuedInNoRoom == \A c \in Range(waitingPlayers) : RoomsOf(c) = {}

====
